---- MODULE Spec2Model ----
(***************************************************************************)
(* Model of runlog_ingest.py: the field parsers, validate_row, and the     *)
(* read / validate / backup / write pipeline of main().                    *)
(*                                                                         *)
(* Representation.                                                         *)
(*  - A Python str is a sequence of one-character strings.                 *)
(*  - A Python float is a decimal [t |-> "float", m |-> mantissa,         *)
(*    e |-> exponent], standing for m * 10^e, kept normalised (no          *)
(*    trailing zero in m).  Decimal arithmetic is exact where IEEE         *)
(*    doubles round.                                                       *)
(*  - A Python int that may exceed a machine integer (coins, cells, the    *)
(*    rates) is [t |-> "int", neg |-> sign, digits |-> decimal digits].    *)
(*  - None is the one-element sequence <<"None">>, which no str equals;    *)
(*    a missing dict key is a missing element of the function's domain.    *)
(***************************************************************************)
EXTENDS Integers, Sequences, FiniteSets, TLC

(***************************************************************************)
(* Bounds of the model.                                                    *)
(***************************************************************************)
\* longest string handed to parse_time in SpecParse
MaxLen == 5
\* most data lines in one runlog.csv
MaxRows == 3
\* most data lines in one runlog.csv of SpecRotate
MaxRotateRows == 2
\* calendar days the clock can show
MaxDays == 2

(***************************************************************************)
(* Characters and strings.                                                 *)
(***************************************************************************)
Digits == {"0", "1", "2", "3", "4", "5", "6", "7", "8", "9"}

DigitVal(c) ==
    CASE c = "0" -> 0 [] c = "1" -> 1 [] c = "2" -> 2 [] c = "3" -> 3
      [] c = "4" -> 4 [] c = "5" -> 5 [] c = "6" -> 6 [] c = "7" -> 7
      [] c = "8" -> 8 [] c = "9" -> 9

DigitChar(n) ==
    CASE n = 0 -> "0" [] n = 1 -> "1" [] n = 2 -> "2" [] n = 3 -> "3"
      [] n = 4 -> "4" [] n = 5 -> "5" [] n = 6 -> "6" [] n = 7 -> "7"
      [] n = 8 -> "8" [] n = 9 -> "9"

Whitespace == {" "}

\* str.lower() on the letters the model uses
LowerChar(c) ==
    CASE c = "H" -> "h" [] c = "M" -> "m" [] c = "F" -> "f" [] c = "D" -> "d"
      [] c = "T" -> "t" [] c = "K" -> "k" [] c = "Q" -> "q" [] c = "B" -> "b"
      [] OTHER -> c

Lower(s) == [i \in 1..Len(s) |-> LowerChar(s[i])]

RECURSIVE LStrip(_)
LStrip(s) ==
    IF s # <<>> /\ Head(s) \in Whitespace THEN LStrip(Tail(s)) ELSE s

RECURSIVE RStrip(_)
RStrip(s) ==
    IF s # <<>> /\ s[Len(s)] \in Whitespace
    THEN RStrip(SubSeq(s, 1, Len(s) - 1)) ELSE s

\* str.strip()
Strip(s) == RStrip(LStrip(s))

AllDigits(s) == \A i \in 1..Len(s) : s[i] \in Digits

RECURSIVE DigitsVal(_)
DigitsVal(s) ==
    IF s = <<>> THEN 0
    ELSE 10 * DigitsVal(SubSeq(s, 1, Len(s) - 1)) + DigitVal(s[Len(s)])

EndsWith(s, c) == s # <<>> /\ s[Len(s)] = c

DropLast(s) == SubSeq(s, 1, Len(s) - 1)

(***************************************************************************)
(* Decimal numbers.                                                        *)
(***************************************************************************)
RECURSIVE Pow10(_)
Pow10(n) == IF n <= 0 THEN 1 ELSE 10 * Pow10(n - 1)

Abs(x) == IF x < 0 THEN -x ELSE x

\* integer division truncating toward zero, as int() truncates
TruncDiv(a, b) ==
    IF (a < 0) = (b < 0) THEN Abs(a) \div Abs(b) ELSE -(Abs(a) \div Abs(b))

RECURSIVE Norm(_)
Norm(d) ==
    IF d.m = 0 THEN [t |-> d.t, m |-> 0, e |-> 0]
    ELSE IF d.m % 10 = 0 THEN Norm([t |-> d.t, m |-> d.m \div 10, e |-> d.e + 1])
    ELSE d

\* the Python float m * 10^e
Float(m, e) == Norm([t |-> "float", m |-> m, e |-> e])

\* float * 10^k
Scale(d, k) == Float(d.m, d.e + k)

\* n >= 0 written with at least w digits, zero padded
RECURSIVE ZeroPad(_, _)
ZeroPad(n, w) ==
    IF w <= 1 /\ n < 10 THEN <<DigitChar(n)>>
    ELSE ZeroPad(n \div 10, w - 1) \o <<DigitChar(n % 10)>>

Zeros(k) == [i \in 1..k |-> "0"]

RECURSIVE StripZeros(_)
StripZeros(ds) ==
    IF Len(ds) > 1 /\ Head(ds) = "0" THEN StripZeros(Tail(ds)) ELSE ds

\* a Python int of any size: its sign and its decimal digits
BigInt(neg, ds) ==
    LET d == StripZeros(ds)
    IN  [t |-> "int", neg |-> neg /\ d # <<"0">>, digits |-> d]

\* int(float): truncation toward zero
IntOf(d) ==
    IF d.e >= 0 THEN BigInt(d.m < 0, ZeroPad(Abs(d.m), 1) \o Zeros(d.e))
    ELSE BigInt(d.m < 0, ZeroPad(Abs(d.m) \div Pow10(-d.e), 1))

\* schoolbook division of a digit string by b > 0, carrying rem
RECURSIVE LongDiv(_, _, _)
LongDiv(ds, b, rem) ==
    IF ds = <<>> THEN <<>>
    ELSE LET cur == 10 * rem + DigitVal(Head(ds))
         IN  <<DigitChar(cur \div b)>> \o LongDiv(Tail(ds), b, cur % b)

\* int(n / d) for an int n and a float d that is not zero: the quotient
\* truncated toward zero (computed exactly; a double rounds it to 53 bits)
IntQuot(n, d) ==
    LET num == IF d.e <= 0 THEN n.digits \o Zeros(-d.e) ELSE n.digits
        q   == LongDiv(num, Abs(d.m), 0)
        cut == IF d.e <= 0 THEN q
               ELSE IF Len(q) > d.e THEN SubSeq(q, 1, Len(q) - d.e) ELSE <<"0">>
    IN  BigInt(n.neg # (d.m < 0), cut)

(***************************************************************************)
(* Results of a call that may raise.                                       *)
(***************************************************************************)
Ok(v) == [ok |-> TRUE, val |-> v]

\* an exception: its type, the message text, the field the message names
\* ("" when it names none) and the value it quotes (<<>> when none)
Raise(type, text, field, quoted) ==
    [ok |-> FALSE, exc |-> type, text |-> text, field |-> field, quoted |-> quoted]

(***************************************************************************)
(* float(str) and int(str) of the Python runtime.                          *)
(***************************************************************************)
\* the unsigned body of a float literal: digits, at most one ".", and at
\* least one digit
IsFloatBody(s) ==
    /\ \E i \in 1..Len(s) : s[i] \in Digits
    /\ \A i \in 1..Len(s) : s[i] \in Digits \cup {"."}
    /\ Cardinality({i \in 1..Len(s) : s[i] = "."}) <= 1

FloatBodyVal(s) ==
    LET dots == {i \in 1..Len(s) : s[i] = "."}
        dot  == IF dots = {} THEN Len(s) + 1 ELSE CHOOSE i \in dots : TRUE
        ip   == SubSeq(s, 1, dot - 1)
        fp   == SubSeq(s, dot + 1, Len(s))
    IN  Float(DigitsVal(ip \o fp), -Len(fp))

Unsigned(s) == IF s # <<>> /\ Head(s) \in {"-", "+"} THEN Tail(s) ELSE s

Negative(s) == s # <<>> /\ Head(s) = "-"

PyFloat(s) ==
    LET t == Strip(s)
        b == Unsigned(t)
    IN  IF IsFloatBody(b)
        THEN Ok(IF Negative(t) THEN Float(-FloatBodyVal(b).m, FloatBodyVal(b).e)
                ELSE FloatBodyVal(b))
        ELSE Raise("ValueError", "could not convert string to float", "", s)

PyInt(s) ==
    LET t == Strip(s)
        b == Unsigned(t)
    IN  IF b # <<>> /\ AllDigits(b)
        THEN Ok(IF Negative(t) THEN -DigitsVal(b) ELSE DigitsVal(b))
        ELSE Raise("ValueError", "invalid literal for int() with base 10", "", s)

(***************************************************************************)
(* parse_time                                                              *)
(***************************************************************************)
\* re.fullmatch(r'(?:(\d+)h)?(?:(\d+)m)?', t): whether t matches, and the two
\* groups, each a non-empty digit string or None (here <<>>)
HourGroup(t) ==
    \* the prefix matched by (?:(\d+)h)?: the digits before the first "h"
    LET hs == {i \in 1..Len(t) : t[i] = "h"}
    IN  IF hs = {} THEN [len |-> 0, digits |-> <<>>]
        ELSE LET i == CHOOSE k \in hs : \A l \in hs : k <= l
             IN  IF i > 1 /\ AllDigits(SubSeq(t, 1, i - 1))
                 THEN [len |-> i, digits |-> SubSeq(t, 1, i - 1)]
                 ELSE [len |-> 0, digits |-> <<>>]

MinuteGroup(r) ==
    \* (?:(\d+)m)? against the rest r, which it must consume entirely
    IF r = <<>> THEN [match |-> TRUE, digits |-> <<>>]
    ELSE IF Len(r) >= 2 /\ r[Len(r)] = "m" /\ AllDigits(DropLast(r))
    THEN [match |-> TRUE, digits |-> DropLast(r)]
    ELSE [match |-> FALSE, digits |-> <<>>]

HmMatch(t) ==
    LET h == HourGroup(t)
        m == MinuteGroup(SubSeq(t, h.len + 1, Len(t)))
    IN  [match |-> m.match, hours |-> h.digits, minutes |-> m.digits]

\* round(hours + minutes / 60, 2): minutes * 100 / 60 = 5 * minutes / 3 is
\* never half-way between two hundredths
RoundHm(hours, minutes) == Float(100 * hours + (10 * minutes + 3) \div 6, -2)

parse_time(value) ==
    IF PyFloat(value).ok THEN PyFloat(value)
    ELSE LET match == HmMatch(Lower(Strip(value)))
         IN  IF ~match.match
             THEN Raise("ValueError", "Invalid time format", "", value)
             ELSE LET hours   == IF match.hours # <<>> THEN DigitsVal(match.hours) ELSE 0
                      minutes == IF match.minutes # <<>> THEN DigitsVal(match.minutes) ELSE 0
                  IN  Ok(RoundHm(hours, minutes))

(***************************************************************************)
(* parse_date: datetime.strptime under the six KNOWN_DATE_FORMATS, tried   *)
(* in order.  A format is its separator and the order of its three         *)
(* directives.                                                             *)
(***************************************************************************)
KNOWN_DATE_FORMATS ==
    << [sep |-> "-", dirs |-> <<"Y", "m", "d">>],
       [sep |-> "/", dirs |-> <<"Y", "m", "d">>],
       [sep |-> "-", dirs |-> <<"m", "d", "Y">>],
       [sep |-> "/", dirs |-> <<"m", "d", "Y">>],
       [sep |-> "-", dirs |-> <<"m", "d", "y">>],
       [sep |-> "/", dirs |-> <<"m", "d", "y">>] >>

\* the pieces of s between occurrences of sep
RECURSIVE Split(_, _)
Split(s, sep) ==
    LET at == {i \in 1..Len(s) : s[i] = sep}
    IN  IF at = {} THEN <<s>>
        ELSE LET i == CHOOSE k \in at : \A l \in at : k <= l
             IN  <<SubSeq(s, 1, i - 1)>> \o Split(SubSeq(s, i + 1, Len(s)), sep)

\* what strptime's regular expression accepts for one directive:
\* %Y \d\d\d\d, %y \d\d, %m 1[0-2]|0[1-9]|[1-9],
\* %d 3[01]|[12]\d|0[1-9]|[1-9]| [1-9]
DirectiveMatches(dir, tok) ==
    CASE dir = "Y" -> Len(tok) = 4 /\ AllDigits(tok)
      [] dir = "y" -> Len(tok) = 2 /\ AllDigits(tok)
      [] dir = "m" -> /\ Len(tok) \in {1, 2}
                      /\ AllDigits(tok)
                      /\ DigitsVal(tok) \in 1..12
      [] dir = "d" -> \/ /\ Len(tok) \in {1, 2}
                         /\ AllDigits(tok)
                         /\ DigitsVal(tok) \in 1..31
                      \/ /\ Len(tok) = 2
                         /\ tok[1] = " "
                         /\ tok[2] \in Digits \ {"0"}

DirectiveVal(dir, tok) ==
    CASE dir = "Y" -> DigitsVal(tok)
      [] dir = "y" -> IF DigitsVal(tok) <= 68 THEN 2000 + DigitsVal(tok)
                      ELSE 1900 + DigitsVal(tok)
      [] dir = "m" -> DigitsVal(tok)
      [] dir = "d" -> DigitsVal(LStrip(tok))

IsLeap(y) == (y % 4 = 0 /\ y % 100 # 0) \/ y % 400 = 0

DaysInMonth(y, m) ==
    IF m = 2 THEN (IF IsLeap(y) THEN 29 ELSE 28)
    ELSE IF m \in {4, 6, 9, 11} THEN 30 ELSE 31

\* datetime(y, m, d) accepts the date
ValidDate(y, m, d) == y \in 1..9999 /\ m \in 1..12 /\ d \in 1..DaysInMonth(y, m)

\* strptime(s, fmt): the date, or no match
Strptime(s, fmt) ==
    LET toks == Split(s, fmt.sep)
        pos(dir) == CHOOSE i \in 1..3 : fmt.dirs[i] = dir
        yd == IF "Y" \in {fmt.dirs[i] : i \in 1..3} THEN "Y" ELSE "y"
    IN  IF /\ Len(toks) = 3
           /\ \A i \in 1..3 : DirectiveMatches(fmt.dirs[i], toks[i])
        THEN LET y == DirectiveVal(yd, toks[pos(yd)])
                 m == DirectiveVal("m", toks[pos("m")])
                 d == DirectiveVal("d", toks[pos("d")])
             IN  IF ValidDate(y, m, d) THEN Ok([y |-> y, m |-> m, d |-> d])
                 ELSE Raise("ValueError", "day is out of range for month", "", s)
        ELSE Raise("ValueError", "does not match format", "", s)

RECURSIVE TryFormats(_, _)
TryFormats(s, k) ==
    IF k > Len(KNOWN_DATE_FORMATS)
    THEN Raise("ValueError", "Invalid date format", "", s)
    ELSE IF Strptime(Strip(s), KNOWN_DATE_FORMATS[k]).ok
    THEN Strptime(Strip(s), KNOWN_DATE_FORMATS[k])
    ELSE TryFormats(s, k + 1)

parse_date(raw) == TryFormats(raw, 1)

\* dt.strftime("%Y-%m-%d")
IsoDate(dt) ==
    ZeroPad(dt.y, 4) \o <<"-">> \o ZeroPad(dt.m, 2) \o <<"-">> \o ZeroPad(dt.d, 2)

\* datetime.now().strftime("%Y%m%d")
CompactDate(dt) == ZeroPad(dt.y, 4) \o ZeroPad(dt.m, 2) \o ZeroPad(dt.d, 2)

\* days from 1970-01-01 to the date (proleptic Gregorian)
DaysFromCivil(dt) ==
    LET y   == IF dt.m <= 2 THEN dt.y - 1 ELSE dt.y
        era == y \div 400
        yoe == y - era * 400
        mp  == (dt.m + 9) % 12
        doy == (153 * mp + 2) \div 5 + dt.d - 1
        doe == yoe * 365 + yoe \div 4 - yoe \div 100 + doy
    IN  era * 146097 + doe - 719468

\* int(dt.timestamp()) of a naive midnight, the local zone being UTC
Epoch(dt) == 86400 * DaysFromCivil(dt)

(***************************************************************************)
(* parse_coin_value, parse_cell_or_dice_value                              *)
(***************************************************************************)
\* float(s) * 10^k
FloatTimes(s, k) == IF PyFloat(s).ok THEN Ok(Scale(PyFloat(s).val, k)) ELSE PyFloat(s)

parse_coin_value(raw) ==
    LET value == Strip(raw)
    IN  IF EndsWith(value, "q") THEN FloatTimes(DropLast(value), 15)
        ELSE IF EndsWith(value, "Q") THEN FloatTimes(DropLast(value), 18)
        ELSE IF EndsWith(value, "T") THEN FloatTimes(DropLast(value), 12)
        ELSE IF EndsWith(value, "B") THEN FloatTimes(DropLast(value), 9)
        ELSE FloatTimes(value, 12)

parse_cell_or_dice_value(raw) ==
    LET value == Strip(raw)
    IN  IF EndsWith(value, "M") THEN FloatTimes(DropLast(value), 6)
        ELSE IF EndsWith(value, "K") THEN FloatTimes(DropLast(value), 3)
        ELSE FloatTimes(value, 3)

(***************************************************************************)
(* fuzzy_match_run_type: difflib.get_close_matches(word, VALID_RUN_TYPES,  *)
(* n=1, cutoff=0.6).  SequenceMatcher's ratio is 2 * M / T, M the size of  *)
(* the matching blocks found by repeatedly taking the longest common       *)
(* block (earliest in a, then earliest in b) and recursing on both sides.  *)
(***************************************************************************)
VALID_RUN_TYPES ==
    << <<"f","a","r","m"," ","-"," ","o","v","e","r","n","i","g","h","t">>,
       <<"f","a","r","m"," ","-"," ","d","a","y">>,
       <<"m","i","l","e","s","t","o","n","e">>,
       <<"t","o","u","r","n","a","m","e","n","t">> >>

DEFAULT_RUN_TYPE == <<"o","t","h","e","r">>

\* the length of the longest common run of a from i and b from j, inside
\* a[..ahi] and b[..bhi]
RECURSIVE RunLen(_, _, _, _, _, _)
RunLen(a, b, i, j, ahi, bhi) ==
    IF i > ahi \/ j > bhi THEN 0
    ELSE IF a[i] # b[j] THEN 0
    ELSE 1 + RunLen(a, b, i + 1, j + 1, ahi, bhi)

\* the maximal common blocks <<i, j, length>> inside a[alo..ahi], b[blo..bhi]
CommonBlocks(a, b, alo, ahi, blo, bhi) ==
    { blk \in { <<i, j, RunLen(a, b, i, j, ahi, bhi)>> :
                   i \in alo..ahi, j \in blo..bhi } : blk[3] > 0 }

\* SequenceMatcher.find_longest_match: the longest block, of those the one
\* that starts earliest in a, of those the one that starts earliest in b
LongestMatch(blocks) ==
    CHOOSE x \in blocks : \A y \in blocks :
        \/ x[3] > y[3]
        \/ x[3] = y[3] /\ x[1] < y[1]
        \/ x[3] = y[3] /\ x[1] = y[1] /\ x[2] <= y[2]

\* the total size of SequenceMatcher.get_matching_blocks
RECURSIVE MatchSize(_, _, _, _, _, _)
MatchSize(a, b, alo, ahi, blo, bhi) ==
    IF alo > ahi \/ blo > bhi THEN 0
    ELSE LET blocks == CommonBlocks(a, b, alo, ahi, blo, bhi)
         IN  IF blocks = {} THEN 0
             ELSE LET x == LongestMatch(blocks)
                  IN  x[3] + MatchSize(a, b, alo, x[1] - 1, blo, x[2] - 1)
                           + MatchSize(a, b, x[1] + x[3], ahi, x[2] + x[3], bhi)

Matches(a, b) == MatchSize(a, b, 1, Len(a), 1, Len(b))

\* x > y as Python orders str, for two strings that differ
RECURSIVE StrGreater(_, _, _)
StrGreater(x, y, ord) ==
    IF y = <<>> THEN x # <<>>
    ELSE IF x = <<>> THEN FALSE
    ELSE IF Head(x) = Head(y) THEN StrGreater(Tail(x), Tail(y), ord)
    ELSE ord[Head(x)] > ord[Head(y)]

\* code points of the first letters that tell VALID_RUN_TYPES apart
LabelOrd == [c \in {"f", "m", "t", " ", "o", "d"} |->
    CASE c = " " -> 32 [] c = "d" -> 100 [] c = "f" -> 102
      [] c = "m" -> 109 [] c = "o" -> 111 [] c = "t" -> 116]

\* get_close_matches(word, VALID_RUN_TYPES, n=1, cutoff=0.6): of the labels
\* whose ratio 2 * M / T is at least 0.6, the greatest (ratio, label) pair
get_close_matches(word) ==
    LET n == Len(VALID_RUN_TYPES)
        M == [i \in 1..n |-> Matches(VALID_RUN_TYPES[i], word)]
        T == [i \in 1..n |-> Len(VALID_RUN_TYPES[i]) + Len(word)]
        close == {i \in 1..n : 10 * M[i] >= 3 * T[i]}
        better(i, j) ==
            \/ M[i] * T[j] > M[j] * T[i]
            \/ /\ M[i] * T[j] = M[j] * T[i]
               /\ StrGreater(VALID_RUN_TYPES[i], VALID_RUN_TYPES[j], LabelOrd)
    IN  IF close = {} THEN <<>>
        ELSE <<VALID_RUN_TYPES[CHOOSE i \in close : \A j \in close \ {i} : better(i, j)]>>

fuzzy_match_run_type(value) ==
    IF value = <<>> THEN DEFAULT_RUN_TYPE
    ELSE LET matches == get_close_matches(Lower(value))
         IN  IF matches # <<>> THEN matches[1] ELSE DEFAULT_RUN_TYPE

(***************************************************************************)
(* validate_row.  A row is the dict csv.DictReader built: a function from  *)
(* the header's field names to cell values, a cell being a str or None.    *)
(***************************************************************************)
MANDATORY_FIELDS == <<"date", "tier", "time", "waves", "coins", "cells">>

OPTIONAL_FIELDS == <<"run_type", "comments", "rerolldice">>

DerivedFields ==
    {"epoch", "rerolldice", "rerolldice_per_hour", "run_type",
     "coins_per_hour", "cells_per_hour"}

None == <<"None">>

NoneHasNoStrip ==
    Raise("AttributeError", "'NoneType' object has no attribute 'strip'", "", <<>>)

DivisionByZero == Raise("ZeroDivisionError", "float division by zero", "", <<>>)

\* lines 83-86: the first mandatory field that is not a key of the row, or
\* whose value has no strip(), or whose value is blank, ends the loop
RECURSIVE CheckMandatory(_, _)
CheckMandatory(row, k) ==
    IF k > Len(MANDATORY_FIELDS) THEN Ok(TRUE)
    ELSE LET field == MANDATORY_FIELDS[k]
         IN  IF field \notin DOMAIN row
             THEN Raise("ValueError", "Missing value for", field, <<>>)
             ELSE IF row[field] = None THEN NoneHasNoStrip
             ELSE IF Strip(row[field]) = <<>>
             THEN Raise("ValueError", "Missing value for", field, <<>>)
             ELSE CheckMandatory(row, k + 1)

\* row.get(key, "")
Get(row, key) == IF key \in DOMAIN row THEN row[key] ELSE <<>>

\* int(parser(raw)) for a magnitude parser's result
IntOfResult(r) == IF r.ok THEN Ok(IntOf(r.val)) ELSE r

\* int(n / time)
PerHour(n, time) == IF time.m = 0 THEN DivisionByZero ELSE Ok(IntQuot(n, time))

\* lines 110-113: the two rates, then the row with its fields replaced and
\* its derived fields added
Rated(row, dt, tier, time, waves, coins, cells, rr, rr_rate, rt_cell, cph, clph) ==
    IF ~cph.ok THEN cph
    ELSE IF ~clph.ok THEN clph
    ELSE Ok([f \in DOMAIN row \cup DerivedFields |->
               CASE f = "date" -> IsoDate(dt.val)
                 [] f = "epoch" -> Epoch(dt.val)
                 [] f = "tier" -> tier.val
                 [] f = "time" -> time.val
                 [] f = "waves" -> waves.val
                 [] f = "coins" -> coins.val
                 [] f = "cells" -> cells.val
                 [] f = "rerolldice" -> rr.val
                 [] f = "rerolldice_per_hour" -> rr_rate.val
                 [] f = "run_type" -> fuzzy_match_run_type(Strip(rt_cell))
                 [] f = "coins_per_hour" -> cph.val
                 [] f = "cells_per_hour" -> clph.val
                 [] OTHER -> row[f]])

\* lines 98-107: the reroll dice and their rate, then the run type
Rerolled(row, dt, tier, time, waves, coins, cells, reroll_raw, rr, rt_cell) ==
    IF ~rr.ok THEN rr
    ELSE IF reroll_raw # <<>> /\ ~PerHour(rr.val, time.val).ok
    THEN PerHour(rr.val, time.val)
    ELSE IF rt_cell = None THEN NoneHasNoStrip
    ELSE Rated(row, dt, tier, time, waves, coins, cells, rr,
               IF reroll_raw # <<>> THEN PerHour(rr.val, time.val)
               ELSE Ok(Float(0, 0)),
               rt_cell,
               PerHour(coins.val, time.val),
               PerHour(cells.val, time.val))

\* lines 83-98: the mandatory fields, the six conversions in the order of
\* the code, then row.get("rerolldice", "").strip()
Parsed(row, chk, dt, tier, time, waves, coins, cells, rr_cell, rt_cell) ==
    IF ~chk.ok THEN chk
    ELSE IF ~dt.ok THEN dt
    ELSE IF ~tier.ok THEN tier
    ELSE IF ~time.ok THEN time
    ELSE IF ~waves.ok THEN waves
    ELSE IF ~coins.ok THEN coins
    ELSE IF ~cells.ok THEN cells
    ELSE IF rr_cell = None THEN NoneHasNoStrip
    ELSE Rerolled(row, dt, tier, time, waves, coins, cells, Strip(rr_cell),
                  IF Strip(rr_cell) # <<>>
                  THEN IntOfResult(parse_cell_or_dice_value(Strip(rr_cell)))
                  ELSE Ok(BigInt(FALSE, <<"0">>)),
                  rt_cell)

\* the try block of validate_row, lines 83-113: the row with its fields
\* replaced and its derived fields added, or the first exception raised
validate_body(row) ==
    Parsed(row,
           CheckMandatory(row, 1),
           parse_date(row["date"]),
           PyInt(row["tier"]),
           parse_time(row["time"]),
           PyInt(row["waves"]),
           IntOfResult(parse_coin_value(row["coins"])),
           IntOfResult(parse_cell_or_dice_value(row["cells"])),
           Get(row, "rerolldice"),
           Get(row, "run_type"))

\* line 85: what validate_row prints before it raises "Missing value"
validate_row_prints(row, index) ==
    IF \E chk \in {CheckMandatory(row, 1)} : chk.ok \/ chk.exc # "ValueError"
    THEN <<>>
    ELSE <<[text |-> "Validation error in row", row |-> index + 2]>>

\* validate_row with "except ValueError" in place of "except Exception"
validate_row_narrow(row, index) ==
    LET r == validate_body(row)
    IN  IF r.ok THEN r
        ELSE [ok |-> FALSE, exc |-> r.exc, row |-> index + 2,
              cause |-> r.exc, text |-> r.text, field |-> r.field,
              quoted |-> r.quoted]

\* lines 114-115: every exception of the try block becomes
\* ValueError(f"Row {index + 2}: {e}")
validate_row(row, index) ==
    LET r == validate_body(row)
    IN  IF r.ok THEN r
        ELSE [ok |-> FALSE, exc |-> "ValueError", row |-> index + 2,
              cause |-> r.exc, text |-> r.text, field |-> r.field,
              quoted |-> r.quoted]

(***************************************************************************)
(* csv.DictReader: the header line names the fields; a line with fewer     *)
(* cells than the header gets None for the rest (restval), a line with     *)
(* more keeps the surplus as a list under the key None (restkey), and a    *)
(* line with no cell at all is skipped.                                    *)
(***************************************************************************)
RestKey == "None"

DictRow(fieldnames, cells) ==
    [f \in {fieldnames[i] : i \in 1..Len(fieldnames)}
          \cup (IF Len(cells) > Len(fieldnames) THEN {RestKey} ELSE {}) |->
        IF f = RestKey THEN SubSeq(cells, Len(fieldnames) + 1, Len(cells))
        ELSE LET i == CHOOSE k \in 1..Len(fieldnames) : fieldnames[k] = f
             IN  IF i <= Len(cells) THEN cells[i] ELSE None]

\* the rows enumerate(reader) yields: the lines that have cells, in order
DataLines(lines) == SelectSeq(lines, LAMBDA l : l # <<>>)

(***************************************************************************)
(* The inputs of the model: lines a hand-kept runlog.csv can hold.         *)
(***************************************************************************)
\* a valid line under the nine-column header
LineFull ==
    <<<<"2", "0", "2", "5", "-", "0", "1", "-", "0", "5">>,
      <<"5">>,
      <<"3", "h", "1", "5", "m">>,
      <<"1", "2", "0", "0">>,
      <<"1", ".", "5", "T">>,
      <<"2", "5", "0", "K">>,
      <<"F", "a", "r", "m", "-", "d", "a", "y">>,
      <<"h", "i">>,
      <<"3", "K">>>>

\* a line cut after its second cell
LineTwoCells ==
    <<<<"2", "0", "2", "5", "-", "0", "1", "-", "0", "5">>,
      <<"5">>>>

\* a line with its mandatory cells only
LineSixCells ==
    <<<<"2", "0", "2", "5", "-", "0", "1", "-", "0", "5">>,
      <<"5">>,
      <<"3", "h", "1", "5", "m">>,
      <<"1", "2", "0", "0">>,
      <<"1", ".", "5", "T">>,
      <<"2", "5", "0", "K">>>>

\* no thirteenth month
LineBadDate ==
    <<<<"2", "0", "2", "5", "-", "1", "3", "-", "0", "5">>,
      <<"5">>,
      <<"2">>,
      <<"1", "2", "0", "0">>,
      <<"1", ".", "5", "T">>,
      <<"2", "5", "0", "K">>,
      <<>>,
      <<>>,
      <<>>>>

\* a valid line under the six-column header
LineDay ==
    <<<<"2", "0", "2", "5", "-", "0", "1", "-", "0", "5">>,
      <<"5">>,
      <<"3", "h", "1", "5", "m">>,
      <<"1", "2", "0", "0">>,
      <<"1", ".", "5", "T">>,
      <<"2", "5", "0", "K">>>>

\* another run of the same day, the date written differently
LineSameDay ==
    <<<<"0", "1", "/", "0", "5", "/", "2", "0", "2", "5">>,
      <<"7">>,
      <<"2", ".", "5">>,
      <<"9", "0", "0">>,
      <<"2", "q">>,
      <<"1", ".", "2", "M">>>>

\* the tier cell holds one blank
LineBlankTier ==
    <<<<"2", "0", "2", "5", "-", "0", "1", "-", "0", "5">>,
      <<" ">>,
      <<"2", ".", "5">>,
      <<"9", "0", "0">>,
      <<"2", "q">>,
      <<"1", ".", "2", "M">>,
      <<>>,
      <<>>,
      <<>>>>

\* no time played
LineZeroTime ==
    <<<<"2", "0", "2", "5", "-", "0", "1", "-", "0", "6">>,
      <<"5">>,
      <<"0">>,
      <<"9", "0", "0">>,
      <<"2", "q">>,
      <<"1", ".", "2", "M">>>>

\* a negative time
LineNegTime ==
    <<<<"2", "0", "2", "5", "-", "0", "1", "-", "0", "6">>,
      <<"5">>,
      <<"-", "2">>,
      <<"9", "0", "0">>,
      <<"2", "q">>,
      <<"1", ".", "2", "M">>>>

\* a time that is no duration
LineBadTime ==
    <<<<"2", "0", "2", "5", "-", "0", "1", "-", "0", "6">>,
      <<"5">>,
      <<"b", "a", "d">>,
      <<"9", "0", "0">>,
      <<"2", "q">>,
      <<"1", ".", "2", "M">>>>

\* a valid line with one cell too many
LineSurplus ==
    <<<<"1", "/", "7", "/", "2", "5">>,
      <<"6">>,
      <<"4", "5", "m">>,
      <<"3", "0">>,
      <<"5", "0", "0">>,
      <<"2">>,
      <<"x">>>>

\* a line of the header that has no date column
LineNoDate ==
    <<<<"5">>,
      <<"2">>,
      <<"9", "0", "0">>,
      <<"2", "q">>,
      <<"1", ".", "2", "M">>>>

BlankLine == <<>>

FullHeader == MANDATORY_FIELDS \o OPTIONAL_FIELDS

NoDateHeader == Tail(MANDATORY_FIELDS)

\* the lines the model puts under each header
LinePool(fieldnames) ==
    IF fieldnames = FullHeader
    THEN {LineFull, LineTwoCells, LineSixCells, LineBlankTier, LineBadDate}
    ELSE IF fieldnames = MANDATORY_FIELDS
    THEN {LineDay, LineSameDay, LineZeroTime, LineNegTime, LineBadTime, BlankLine}
    ELSE {LineNoDate}

SeqsUpTo(S, n) == UNION {[1..k -> S] : k \in 0..n}

NoCsv == [exists |-> FALSE, fieldnames |-> <<>>, lines |-> <<>>]

CsvFile(fieldnames, lines) ==
    [exists |-> TRUE, fieldnames |-> fieldnames, lines |-> lines]

\* the runlog.csv files of Spec
CsvFiles ==
    {NoCsv} \cup
    UNION { {CsvFile(h, ls) : ls \in SeqsUpTo(LinePool(h), MaxRows)} :
            h \in {FullHeader, MANDATORY_FIELDS, NoDateHeader} }

\* the runlog.csv files of SpecRotate; the one without a line makes a run
\* that writes nothing
RotateCsvFiles ==
    {CsvFile(MANDATORY_FIELDS, ls) :
        ls \in SeqsUpTo({LineDay, LineSurplus}, MaxRotateRows)}

\* the day the clock shows: day k of the model's calendar
Today(k) == [y |-> 2025, m |-> 11, d |-> 5 + k]

(***************************************************************************)
(* Files.  The file system maps the paths that exist to their content; a   *)
(* store's content is the records json.dump has written and whether the    *)
(* array was written to its end.                                           *)
(***************************************************************************)
INPUT_CSV == <<"runlog.csv">>

OUTPUT_JSON == <<"runlog.json">>

CompleteFile(records) == [records |-> records, complete |-> TRUE]

PartialFile(records) == [records |-> records, complete |-> FALSE]

RecordOf(fieldnames, cells) == validate_row(DictRow(fieldnames, cells), 0).val

\* what earlier runs can have left: nothing; a store; a store and the
\* backup an earlier run of day 1 made
EarlierFiles ==
    UNION { { <<>>,
              [p \in {OUTPUT_JSON} |-> CompleteFile(<<rec[LineSameDay]>>)],
              [p \in {OUTPUT_JSON, day1} |->
                  IF p = OUTPUT_JSON
                  THEN CompleteFile(<<rec[LineDay], rec[LineSameDay]>>)
                  ELSE CompleteFile(<<rec[LineSameDay]>>)] } :
            day1 \in {OUTPUT_JSON \o <<".">> \o CompactDate(Today(1))},
            rec \in {[l \in {LineDay, LineSameDay} |-> RecordOf(MANDATORY_FIELDS, l)]} }

(***************************************************************************)
(* State.                                                                  *)
(***************************************************************************)
VARIABLES
    clock,        \* the calendar day, 1..MaxDays
    csv,          \* the file at INPUT_CSV
    fs,           \* the files at OUTPUT_JSON and at the backup paths
    pc,           \* where the process is: "idle" before it starts, then
                  \* "main", "rows", "backup", "open", "dump", and at last
                  \* "exit" or "killed"
    DATE_SUFFIX,  \* module constant of the running process (line 11)
    idx,          \* rows enumerate(reader) has yielded
    parsed_data,  \* main's list of validated rows
    error_count,  \* main's count of rejected rows
    stdout,       \* what the process printed, oldest first
    exit_status,  \* -1 while there is none, else the process's exit status
    runs,         \* processes started so far
    fs_at_start,  \* history: fs when the running process started
    written,      \* history: the runs that wrote the store to its end
    outcomes,     \* history: what validate_row returned or raised for each
                  \* row the running process has read
    value,        \* SpecParse: the argument of parse_time
    result        \* SpecParse: what parse_time returned or raised

vars == <<clock, csv, fs, pc, DATE_SUFFIX, idx, parsed_data, error_count,
          stdout, exit_status, runs, fs_at_start, written, outcomes, value,
          result>>

env_vars == <<clock, csv>>

parse_vars == <<value, result>>

NotCalled == [ok |-> FALSE, exc |-> "", text |-> "not called", field |-> "", quoted |-> <<>>]

\* a backup path that also carries the number of the run
BACKUP_JSON_additive == OUTPUT_JSON \o <<".">> \o DATE_SUFFIX \o <<DigitChar(runs)>>

\* line 12
BACKUP_JSON == OUTPUT_JSON \o <<".">> \o DATE_SUFFIX

Exists(path) == path \in DOMAIN fs

\* the file system with content at path, replacing what was there
WithFile(files, path, content) ==
    [q \in DOMAIN files \cup {path} |-> IF q = path THEN content ELSE files[q]]

Without(files, path) == [q \in DOMAIN files \ {path} |-> files[q]]

Say(text) == [text |-> text]

Printed(text) == \E i \in 1..Len(stdout) : stdout[i].text = text

\* line 128 has printed its warning
Warned == Printed("Warning: Failed to backup")

InitProcess ==
    /\ pc = "idle"
    /\ DATE_SUFFIX = <<>>
    /\ idx = 0
    /\ parsed_data = <<>>
    /\ error_count = 0
    /\ stdout = <<>>
    /\ exit_status = -1
    /\ runs = 0
    /\ fs_at_start = fs
    /\ written = <<>>
    /\ outcomes = <<>>

Init ==
    /\ clock = 1
    /\ csv \in CsvFiles
    /\ fs \in EarlierFiles
    /\ InitProcess
    /\ value = <<>>
    /\ result = NotCalled

(***************************************************************************)
(* The process: import of the module, then main().                         *)
(***************************************************************************)
\* lines 9-12 and 131-132: the module constants, main's two locals
Start ==
    /\ DATE_SUFFIX' = CompactDate(Today(clock))
    /\ parsed_data' = <<>>
    /\ error_count' = 0
    /\ idx' = 0
    /\ stdout' = <<>>
    /\ exit_status' = -1
    /\ runs' = runs + 1
    /\ fs_at_start' = fs
    /\ outcomes' = <<>>
    /\ pc' = "main"
    /\ UNCHANGED <<env_vars, fs, written, parse_vars>>

Launch == pc = "idle" /\ Start

\* main returns: the interpreter exits with status 0
Return(messages) ==
    /\ stdout' = stdout \o messages
    /\ exit_status' = 0
    /\ pc' = "exit"

\* lines 134-140
OpenSource ==
    /\ pc = "main"
    /\ IF ~csv.exists
       THEN Return(<<Say("Error: 'runlog.csv' not found.")>>)
       ELSE /\ stdout' = Append(stdout, [text |-> "CSV headers detected:",
                                         fieldnames |-> csv.fieldnames])
            /\ pc' = "rows"
            /\ UNCHANGED exit_status
    /\ UNCHANGED <<env_vars, fs, DATE_SUFFIX, idx, parsed_data, error_count,
                   runs, fs_at_start, written, outcomes, parse_vars>>

\* a list that keeps one run per date
Accepted_one_per_date(list, validated_row) ==
    IF \E i \in 1..Len(list) : list[i]["date"] = validated_row["date"]
    THEN list
    ELSE Append(list, validated_row)

\* line 145: parsed_data.append(validated_row)
Accepted(list, validated_row) == Append(list, validated_row)

\* lines 142-148: one turn of the loop.  Only ValueError is caught; any
\* other exception leaves main with a traceback and exit status 1
ReadRow ==
    /\ pc = "rows"
    /\ idx < Len(DataLines(csv.lines))
    /\ \E row \in {DictRow(csv.fieldnames, DataLines(csv.lines)[idx + 1])} :
       \E validated_row \in {validate_row(row, idx)} :
       \E printed \in {validate_row_prints(row, idx)} :
           /\ outcomes' = Append(outcomes, validated_row)
           /\ IF validated_row.ok
              THEN /\ parsed_data' = Accepted(parsed_data, validated_row.val)
                   /\ idx' = idx + 1
                   /\ stdout' = stdout \o printed
                   /\ UNCHANGED <<error_count, pc, exit_status>>
              ELSE IF validated_row.exc = "ValueError"
              THEN /\ stdout' = stdout \o printed \o
                           <<[text |-> "Validation error:", e |-> validated_row]>>
                   /\ error_count' = error_count + 1
                   /\ idx' = idx + 1
                   /\ UNCHANGED <<parsed_data, pc, exit_status>>
              ELSE /\ stdout' = stdout \o printed \o
                           <<[text |-> "Traceback (most recent call last):",
                              e |-> validated_row]>>
                   /\ exit_status' = 1
                   /\ pc' = "exit"
                   /\ UNCHANGED <<parsed_data, error_count, idx>>
    /\ UNCHANGED <<env_vars, fs, DATE_SUFFIX, runs, fs_at_start, written, parse_vars>>

\* main without lines 150-152
EndOfRows_unchecked ==
    /\ pc = "rows"
    /\ idx = Len(DataLines(csv.lines))
    /\ pc' = "backup"
    /\ UNCHANGED <<env_vars, fs, DATE_SUFFIX, idx, parsed_data, error_count,
                   stdout, exit_status, runs, fs_at_start, written, outcomes, parse_vars>>

\* lines 150-154: after the last row
EndOfRows ==
    /\ pc = "rows"
    /\ idx = Len(DataLines(csv.lines))
    /\ IF parsed_data = <<>>
       THEN Return(<<Say("No valid entries found. Aborting.")>>)
       ELSE /\ pc' = "backup"
            /\ UNCHANGED <<stdout, exit_status>>
    /\ UNCHANGED <<env_vars, fs, DATE_SUFFIX, idx, parsed_data, error_count,
                   runs, fs_at_start, written, outcomes, parse_vars>>

\* what a failed shutil.move(OUTPUT_JSON, BACKUP_JSON) can leave behind:
\* nothing changed (the rename failed and so did the start of the copy), a
\* truncated copy at the destination, or a whole copy whose source could
\* not be removed
FailedMoves(files) ==
    { files,
      WithFile(files, BACKUP_JSON, PartialFile(<<>>)),
      WithFile(files, BACKUP_JSON, files[OUTPUT_JSON]) }

\* backup_existing_json letting the exception of shutil.move reach
\* main's handler, which ends the run before the write
backup_existing_json_fatal ==
    /\ pc = "backup"
    /\ \/ /\ ~Exists(OUTPUT_JSON)
          /\ pc' = "open"
          /\ UNCHANGED <<fs, stdout, exit_status>>
       \/ /\ Exists(OUTPUT_JSON)
          /\ fs' = Without(WithFile(fs, BACKUP_JSON, fs[OUTPUT_JSON]), OUTPUT_JSON)
          /\ pc' = "open"
          /\ UNCHANGED <<stdout, exit_status>>
       \/ /\ Exists(OUTPUT_JSON)
          /\ fs' \in FailedMoves(fs)
          /\ Return(<<Say("Warning: Failed to backup")>>)
    /\ UNCHANGED <<env_vars, DATE_SUFFIX, idx, parsed_data, error_count,
                   runs, fs_at_start, written, outcomes, parse_vars>>

\* lines 123-128, called at line 155
backup_existing_json ==
    /\ pc = "backup"
    /\ \/ /\ ~Exists(OUTPUT_JSON)
          /\ UNCHANGED <<fs, stdout>>
       \/ /\ Exists(OUTPUT_JSON)
          /\ fs' = Without(WithFile(fs, BACKUP_JSON, fs[OUTPUT_JSON]), OUTPUT_JSON)
          /\ UNCHANGED stdout
       \/ /\ Exists(OUTPUT_JSON)
          /\ fs' \in FailedMoves(fs)
          /\ stdout' = Append(stdout, Say("Warning: Failed to backup"))
    /\ pc' = "open"
    /\ UNCHANGED <<env_vars, DATE_SUFFIX, idx, parsed_data, error_count,
                   exit_status, runs, fs_at_start, written, outcomes, parse_vars>>

\* line 156: open(OUTPUT_JSON, "w") creates the file or empties it; when it
\* raises, line 162 reports it
OpenStore ==
    /\ pc = "open"
    /\ \/ /\ fs' = WithFile(fs, OUTPUT_JSON, PartialFile(<<>>))
          /\ pc' = "dump"
          /\ UNCHANGED <<stdout, exit_status>>
       \/ /\ Return(<<Say("Unexpected error while writing JSON")>>)
          /\ UNCHANGED fs
    /\ UNCHANGED <<env_vars, DATE_SUFFIX, idx, parsed_data, error_count,
                   runs, fs_at_start, written, outcomes, parse_vars>>

\* lines 157-162: json.dump writes the array; when it raises part-way the
\* file keeps what was written and line 162 reports it
DumpStore ==
    /\ pc = "dump"
    /\ \/ /\ fs' = WithFile(fs, OUTPUT_JSON, CompleteFile(parsed_data))
          /\ Return(<<[text |-> "Successfully parsed", n |-> Len(parsed_data)]>>
                    \o (IF error_count # 0
                        THEN <<[text |-> "Ignored", n |-> error_count]>>
                        ELSE <<>>))
          /\ written' = Append(written, [run |-> runs, day |-> clock,
                                         records |-> parsed_data,
                                         prior |-> OUTPUT_JSON \in DOMAIN fs_at_start,
                                         warned |-> Warned])
       \/ /\ \E k \in 0..Len(parsed_data) :
                fs' = WithFile(fs, OUTPUT_JSON, PartialFile(SubSeq(parsed_data, 1, k)))
          /\ Return(<<Say("Unexpected error while writing JSON")>>)
          /\ UNCHANGED written
    /\ UNCHANGED <<env_vars, DATE_SUFFIX, idx, parsed_data, error_count,
                   runs, fs_at_start, outcomes, parse_vars>>

\* the process is terminated from outside; a file it was writing keeps
\* what had reached it
Kill ==
    /\ pc \in {"main", "rows", "backup", "open", "dump"}
    /\ pc' = "killed"
    /\ exit_status' = 137
    /\ IF pc = "dump"
       THEN \E k \in 0..Len(parsed_data) :
                fs' = WithFile(fs, OUTPUT_JSON, PartialFile(SubSeq(parsed_data, 1, k)))
       ELSE UNCHANGED fs
    /\ UNCHANGED <<env_vars, DATE_SUFFIX, idx, parsed_data, error_count,
                   stdout, runs, fs_at_start, written, outcomes, parse_vars>>

Main == OpenSource \/ ReadRow \/ EndOfRows \/ backup_existing_json
            \/ OpenStore \/ DumpStore

Next == Launch \/ Main \/ Kill

\* one run of the script on any of CsvFiles, over any of EarlierFiles
Spec == Init /\ [][Next]_vars

(***************************************************************************)
(* Two runs of the script, the user rewriting runlog.csv and the day       *)
(* changing between them.                                                  *)
(***************************************************************************)
InitRotate ==
    /\ clock = 1
    /\ csv \in RotateCsvFiles
    /\ fs \in {f \in EarlierFiles : DOMAIN f \subseteq {OUTPUT_JSON}}
    /\ InitProcess
    /\ value = <<>>
    /\ result = NotCalled

Ended == pc \in {"exit", "killed"}

Relaunch == Ended /\ runs < 2 /\ Start

EditCsv ==
    /\ Ended /\ runs < 2
    /\ csv' \in RotateCsvFiles \ {csv}
    /\ UNCHANGED <<clock, fs, pc, DATE_SUFFIX, idx, parsed_data, error_count,
                   stdout, exit_status, runs, fs_at_start, written, outcomes, parse_vars>>

Tick ==
    /\ pc = "idle" \/ Ended
    /\ clock < MaxDays
    /\ clock' = clock + 1
    /\ UNCHANGED <<csv, fs, pc, DATE_SUFFIX, idx, parsed_data, error_count,
                   stdout, exit_status, runs, fs_at_start, written, outcomes, parse_vars>>

NextRotate == Launch \/ Relaunch \/ EditCsv \/ Tick \/ Main \/ Kill

SpecRotate == InitRotate /\ [][NextRotate]_vars

(***************************************************************************)
(* parse_time on every string over ParseAlphabet of at most MaxLen         *)
(* characters.                                                             *)
(***************************************************************************)
ParseAlphabet == {"1", "3", "5", "h", "m", "H", ".", " ", "x"}

InitParse ==
    /\ clock = 1
    /\ csv = NoCsv
    /\ fs = <<>>
    /\ InitProcess
    /\ value \in SeqsUpTo(ParseAlphabet, MaxLen)
    /\ result = NotCalled

CallParseTime ==
    /\ result = NotCalled
    /\ result' = parse_time(value)
    /\ UNCHANGED <<env_vars, fs, pc, DATE_SUFFIX, idx, parsed_data, error_count,
                   stdout, exit_status, runs, fs_at_start, written, outcomes, value>>

NextParse == CallParseTime

SpecParse == InitParse /\ [][NextParse]_vars

(***************************************************************************)
(* Properties.                                                             *)
(***************************************************************************)
\* the rows enumerate(reader) yields from the file at INPUT_CSV
NumDataRows == Len(DataLines(csv.lines))

\* the validated forms among the first n outcomes
RECURSIVE ValidUpTo(_)
ValidUpTo(n) ==
    IF n = 0 THEN <<>>
    ELSE IF outcomes[n].ok THEN Append(ValidUpTo(n - 1), outcomes[n].val)
    ELSE ValidUpTo(n - 1)

\* the reported numbers (data position + 2) of the rows among the first n
\* that did not validate
RECURSIVE InvalidUpTo(_)
InvalidUpTo(n) ==
    IF n = 0 THEN <<>>
    ELSE IF outcomes[n].ok THEN InvalidUpTo(n - 1)
    ELSE Append(InvalidUpTo(n - 1), n + 1)

RowErrors == SelectSeq(stdout, LAMBDA msg : msg.text = "Validation error:")

Succeeded == pc = "exit" /\ Printed("Successfully parsed")

StoreIs(content) == Exists(OUTPUT_JSON) /\ fs[OUTPUT_JSON] = content

\* the lines of the model that have a cell for every column of the header
\* and every mandatory cell in an accepted format, with a time above 0
WellFormedLines(fieldnames) ==
    IF fieldnames = FullHeader THEN {LineFull}
    ELSE IF fieldnames = MANDATORY_FIELDS THEN {LineDay, LineSameDay, LineSurplus}
    ELSE {}

AllWellFormed ==
    /\ csv.exists
    /\ \A i \in 1..Len(csv.lines) : csv.lines[i] \in WellFormedLines(csv.fieldnames)

\* the record is what validate_row returned for the i-th row, and it
\* carries that line's tier, time and waves
RecordOfLine(record, i) ==
    /\ outcomes[i].ok
    /\ record = outcomes[i].val
    /\ record["tier"] = PyInt(csv.lines[i][2]).val
    /\ record["time"] = parse_time(csv.lines[i][3]).val
    /\ record["waves"] = PyInt(csv.lines[i][4]).val

\* C1: when every line of the csv is well-formed, an ingest that completes
\* leaves a store of exactly as many records as there are lines, the i-th
\* record being the validated form of the i-th line.
RoundTrip ==
    (Succeeded /\ AllWellFormed) =>
        /\ Exists(OUTPUT_JSON)
        /\ fs[OUTPUT_JSON].complete
        /\ Len(fs[OUTPUT_JSON].records) = Len(csv.lines)
        /\ \A i \in 1..Len(csv.lines) : RecordOfLine(fs[OUTPUT_JSON].records[i], i)

\* two different well-formed lines of the same date were ingested and both
\* are stored
RoundTripWitness ==
    /\ Succeeded
    /\ AllWellFormed
    /\ Len(csv.lines) >= 2
    /\ Len(fs[OUTPUT_JSON].records) = Len(csv.lines)
    /\ fs[OUTPUT_JSON].records[1]["date"] = fs[OUTPUT_JSON].records[2]["date"]
    /\ fs[OUTPUT_JSON].records[1] # fs[OUTPUT_JSON].records[2]

\* C2: a row that fails validation never stops the rows after it: at every
\* point the accepted list is the valid rows read so far, in order, one
\* RowError is printed per invalid row read so far and carries data
\* position + 2, accepted + rejected = rows read, and the loop ends only
\* after the last row.
ErrorIsolation ==
    /\ Len(outcomes) = idx
    /\ parsed_data = ValidUpTo(idx)
    /\ [k \in 1..Len(RowErrors) |-> RowErrors[k].e.row] = InvalidUpTo(idx)
    /\ error_count = Len(RowErrors)
    /\ Len(parsed_data) + error_count = idx
    /\ (pc \in {"backup", "open", "dump"} \/ (pc = "exit" /\ csv.exists))
          => idx = NumDataRows
    /\ Succeeded => StoreIs(CompleteFile(ValidUpTo(NumDataRows)))

\* an invalid row between two valid ones: both valid rows are stored
ErrorIsolationWitness ==
    /\ Succeeded
    /\ NumDataRows = 3
    /\ InvalidUpTo(3) = <<3>>
    /\ error_count = 1
    /\ StoreIs(CompleteFile(ValidUpTo(3)))
    /\ Len(fs[OUTPUT_JSON].records) = 2

\* every row has been read and none validated
NoValidRows ==
    /\ csv.exists
    /\ pc \notin {"idle", "main"}
    /\ idx = NumDataRows
    /\ \A i \in 1..Len(outcomes) : ~outcomes[i].ok

\* C3: until the last row is read no file is touched, and when no row has
\* validated (or there was no data row) the run never reaches the backup
\* or the write: every file is as it was when the run started, and the run
\* ends saying so.
NoValidRowsAborts ==
    /\ pc \in {"main", "rows"} => fs = fs_at_start
    /\ NoValidRows =>
          /\ fs = fs_at_start
          /\ pc \notin {"backup", "open", "dump"}
          /\ pc = "exit" => stdout[Len(stdout)].text = "No valid entries found. Aborting."

\* every row lacked its date, a store and a backup existed, and both are
\* as they were
NoValidRowsWitness ==
    /\ NoValidRows
    /\ NumDataRows >= 2
    /\ csv.fieldnames = NoDateHeader
    /\ pc = "exit"
    /\ Printed("No valid entries found. Aborting.")
    /\ Cardinality(DOMAIN fs_at_start) = 2
    /\ fs = fs_at_start

\* the run started with a store at OUTPUT_JSON
HadPrior == pc # "idle" /\ OUTPUT_JSON \in DOMAIN fs_at_start

\* C4: during and after a run that started with a store, the store path
\* holds the complete new array, or the prior content is still whole at
\* the store path or at the dated backup path.
RecoverableStore ==
    HadPrior =>
        \/ StoreIs(CompleteFile(parsed_data))
        \/ StoreIs(fs_at_start[OUTPUT_JSON])
        \/ Exists(BACKUP_JSON) /\ fs[BACKUP_JSON] = fs_at_start[OUTPUT_JSON]

\* the move failed, the write failed after it had emptied the store, and
\* no file holds the prior content
PriorLost ==
    /\ HadPrior
    /\ fs_at_start[OUTPUT_JSON].complete
    /\ Warned
    /\ pc = "exit"
    /\ Printed("Unexpected error while writing JSON")
    /\ DOMAIN fs = {OUTPUT_JSON}
    /\ StoreIs(PartialFile(<<>>))

\* the backup path of a run of the given day, digit by digit
DatedBackup(day) ==
    OUTPUT_JSON \o <<".", "2", "0", "2", "5", "1", "1", "0", DigitChar(5 + day)>>

\* both runs wrote the store to its end on one day, and the second one's
\* move did not fail
TwoIngestsOneDay ==
    /\ Ended
    /\ runs = 2
    /\ Len(written) = 2
    /\ written[1].day = written[2].day
    /\ ~written[2].warned

\* C5: when the move does not fail the prior store is at
\* store + "." + YYYYMMDD, and gone from the store path, before the new
\* store is opened and written; after two completed ingests on one day
\* there is exactly one backup, at that day's path, and it holds what the
\* first run wrote.
BackupRotation ==
    /\ (pc \in {"open", "dump"} /\ HadPrior /\ ~Warned) =>
          /\ Exists(DatedBackup(clock))
          /\ fs[DatedBackup(clock)] = fs_at_start[OUTPUT_JSON]
          /\ pc = "open" => ~Exists(OUTPUT_JSON)
          /\ pc = "dump" => StoreIs(PartialFile(<<>>))
    /\ TwoIngestsOneDay =>
          /\ DOMAIN fs = {OUTPUT_JSON, DatedBackup(written[2].day)}
          /\ fs[DatedBackup(written[2].day)] = CompleteFile(written[1].records)
          /\ StoreIs(CompleteFile(written[2].records))

\* the first run moved a store that was there before it, the second run
\* moved the first run's output over that backup
BackupRotationWitness ==
    /\ TwoIngestsOneDay
    /\ written[1].prior
    /\ ~written[1].warned
    /\ written[1].records # written[2].records
    /\ fs[DatedBackup(written[2].day)] = CompleteFile(written[1].records)

\* C6: every accepted and every stored record has a time above 0, and a
\* division by a time of 0 never leaves validate_row as anything but the
\* row's ValueError.
PositiveTime ==
    /\ \A i \in 1..Len(parsed_data) : parsed_data[i]["time"].m > 0
    /\ Exists(OUTPUT_JSON) =>
          \A i \in 1..Len(fs[OUTPUT_JSON].records) :
              fs[OUTPUT_JSON].records[i]["time"].m > 0
    /\ \A i \in 1..Len(outcomes) :
          (~outcomes[i].ok /\ outcomes[i].cause = "ZeroDivisionError")
              => outcomes[i].exc = "ValueError"

\* a row whose time is "-2" is in the store the run wrote
NegativeTimeStored ==
    /\ Succeeded
    /\ fs[OUTPUT_JSON].complete
    /\ \E i \in 1..Len(fs[OUTPUT_JSON].records) :
          /\ fs[OUTPUT_JSON].records[i]["time"] = Float(-2, 0)
          /\ fs[OUTPUT_JSON].records[i]["coins_per_hour"].neg

FatalMessages ==
    {"Error: 'runlog.csv' not found.", "No valid entries found. Aborting.",
     "Unexpected error while writing JSON"}

\* C7: a run that ends on a fatal condition has printed its message last
\* and exits with a status other than 0; when the source is missing no row
\* was read and no file was touched.
FatalFailsLoudly ==
    /\ (pc = "exit" /\ \E text \in FatalMessages : Printed(text)) =>
          /\ stdout[Len(stdout)].text \in FatalMessages
          /\ exit_status # 0
    /\ (pc = "exit" /\ ~csv.exists) =>
          /\ Printed("Error: 'runlog.csv' not found.")
          /\ idx = 0
          /\ fs = fs_at_start

\* runlog.csv is missing and the run ends with the status of a success
SilentFatalExit ==
    /\ ~csv.exists
    /\ pc = "exit"
    /\ Printed("Error: 'runlog.csv' not found.")
    /\ exit_status = 0

\* C8: after the warning of a failed move the run goes on to the write: it
\* never ends at the backup, and when the write goes through the store
\* holds the complete new array.
BackupFailureNonFatal ==
    Warned =>
        /\ HadPrior
        /\ pc \in {"open", "dump", "exit", "killed"}
        /\ pc = "exit" =>
              \/ Succeeded /\ StoreIs(CompleteFile(parsed_data)) /\ parsed_data # <<>>
              \/ stdout[Len(stdout)].text = "Unexpected error while writing JSON"

\* the move failed, the warning was printed, and the new array replaced
\* the prior store all the same
BackupFailureWitness ==
    /\ Warned
    /\ Succeeded
    /\ HadPrior
    /\ StoreIs(CompleteFile(parsed_data))
    /\ fs[OUTPUT_JSON] # fs_at_start[OUTPUT_JSON]

\* the mandatory field's cell is absent from the row or blank
AbsentOrBlank(row, field) ==
    \/ field \notin DOMAIN row
    \/ row[field] = None
    \/ Strip(row[field]) = <<>>

\* the type each mandatory and derived field has in a stored record
Typed(record) ==
    /\ {MANDATORY_FIELDS[k] : k \in 1..Len(MANDATORY_FIELDS)} \cup DerivedFields
          \subseteq DOMAIN record
    /\ record["date"] \in Seq(Digits \cup {"-"}) /\ Len(record["date"]) = 10
    /\ record["epoch"] \in Int
    /\ record["tier"] \in Int
    /\ record["time"].t = "float"
    /\ record["waves"] \in Int
    /\ \A f \in {"coins", "cells", "rerolldice", "coins_per_hour", "cells_per_hour"} :
          record[f].t = "int"
    /\ record["rerolldice_per_hour"].t \in {"int", "float"}
    /\ record["run_type"] \in
          {VALID_RUN_TYPES[k] : k \in 1..Len(VALID_RUN_TYPES)} \cup {DEFAULT_RUN_TYPE}

\* C9: a row with an absent or blank mandatory field is rejected with a
\* message that names the first such field, in the order date, tier, time,
\* waves, coins, cells; a row that was rejected adds nothing to the
\* accepted list; every stored record is fully typed.
NoPartialRecord ==
    /\ \A i \in 1..Len(outcomes) :
          LET row == DictRow(csv.fieldnames, DataLines(csv.lines)[i])
              missing == {k \in 1..Len(MANDATORY_FIELDS) :
                             AbsentOrBlank(row, MANDATORY_FIELDS[k])}
              first == CHOOSE k \in missing : \A l \in missing : k <= l
          IN  missing # {} =>
                 /\ ~outcomes[i].ok
                 /\ outcomes[i].text = "Missing value for"
                 /\ outcomes[i].field = MANDATORY_FIELDS[first]
    /\ Len(parsed_data) = Cardinality({i \in 1..Len(outcomes) : outcomes[i].ok})
    /\ (Exists(OUTPUT_JSON) /\ fs[OUTPUT_JSON] # fs_at_start[OUTPUT_JSON]) =>
          \A i \in 1..Len(fs[OUTPUT_JSON].records) : Typed(fs[OUTPUT_JSON].records[i])

\* a row that has no cell for "time" was rejected with a message that
\* names no field
UnnamedMissingField ==
    \E i \in 1..Len(outcomes) :
        /\ DictRow(csv.fieldnames, DataLines(csv.lines)[i])["time"] = None
        /\ ~outcomes[i].ok
        /\ outcomes[i].cause = "AttributeError"
        /\ outcomes[i].field = ""

\* g is an absent group, or digits followed by the unit
IsGroup(g, unit) ==
    g = <<>> \/ (Len(g) >= 2 /\ g[Len(g)] = unit /\ AllDigits(DropLast(g)))

GroupVal(g) == IF g = <<>> THEN 0 ELSE DigitsVal(DropLast(g))

\* d is hours + minutes / 60 rounded to two decimals: the hundredth
\* nearest to it
IsRounded(d, hours, minutes) ==
    LET q == (6000 * hours + 100 * minutes) \div 60
    IN  \E v \in {q, q + 1} :
            /\ d = Float(v, -2)
            /\ 2 * Abs(60 * v - (6000 * hours + 100 * minutes)) <= 60

\* C10: parse_time returns a decimal number unchanged; else a string that
\* is (<int>h)?(<int>m)? in any case with a group present gives
\* hours + minutes / 60 rounded to two decimals; every other string, the
\* empty one included, is refused as an invalid time.
ParseDurationContract ==
    result # NotCalled =>
        LET t == Lower(Strip(value))
            splits == {i \in 0..Len(t) :
                          /\ t # <<>>
                          /\ IsGroup(SubSeq(t, 1, i), "h")
                          /\ IsGroup(SubSeq(t, i + 1, Len(t)), "m")}
        IN  IF PyFloat(value).ok THEN result = Ok(PyFloat(value).val)
            ELSE IF splits # {}
            THEN /\ result.ok
                 /\ \A i \in splits :
                       IsRounded(result.val,
                                 GroupVal(SubSeq(t, 1, i)),
                                 GroupVal(SubSeq(t, i + 1, Len(t))))
            ELSE /\ ~result.ok
                 /\ result.text = "Invalid time format"

\* every string but the blank ones is treated as C10 says
ParseDurationNonBlank == Strip(value) # <<>> => ParseDurationContract

\* a string of one space came back as 0.0
BlankParsesAsZero ==
    /\ value = <<" ">>
    /\ result = Ok(Float(0, 0))

====
